---- MODULE Spec2Model ----
(* A model of internet_scholar.py: the AthenaDatabase query engine            *)
(* (query_athena, query_athena_and_wait, query_athena_and_download,           *)
(* query_athena_and_get_result, table_exists) against a remote query service  *)
(* and a shared result bucket, and the dataset writer save_data_in_s3 with    *)
(* compress against the local file system.                                    *)
EXTENDS Integers, Sequences, FiniteSets, TLC

VARIABLES
    s3_output_prefix,   \* session -> self.s3_output_prefix (a token sequence)
    athena_failures,    \* session -> self.athena_failures
    pc,                 \* session -> "idle" | "poll" | "fetch"
    op,                 \* session -> the public method being run
    delete_results,     \* session -> the delete_results argument
    execution_id,       \* session -> execution id of the current attempt
    state,              \* session -> local variable state of the polling loop
    elapsed_time,       \* session -> local variable elapsed_time
    response,           \* session -> OutputLocation of the last response
    filename_s3,        \* session -> what query_athena_and_wait returned
    outcome,            \* session -> how the last call was left
    ret,                \* session -> the value the last call returned
    localfile,          \* session -> content of the downloaded local file
    bucket,             \* the result bucket: a set of [key, body] objects
    late,               \* executions the client gave up on, still pending remotely
    abandoned,          \* how many executions were left pending so far
    nextId,             \* session -> number of its next execution
    calls,              \* session -> calls the caller still makes
    tick,               \* session -> parity of the status requests sent
    polls,              \* session -> iterations of the polling loop, this attempt
    queuedPolls,        \* session -> those of them entered with state QUEUED
    submits,            \* session -> start_query_execution calls of this call
    callFails,          \* session -> failing attempts of this call
    startFailures,      \* session -> athena_failures when this call began
    sinceSuccess,       \* session -> non-SUCCEEDED attempts since the last SUCCEEDED
    prevStreak,         \* session -> the streak the last SUCCEEDED attempt ended
    svcBody,            \* session -> body the service wrote for the SUCCEEDED attempt
    removed,            \* session -> objects its last prefix-scoped delete removed
    readKey,            \* session -> key of the object it last read
    savePc,             \* save_data_in_s3: position in the function
    saveArgs,           \* save_data_in_s3: the arguments of the running call
    saveFile,           \* save_data_in_s3: local variable filename
    saveError,          \* save_data_in_s3: the exception in flight, if any
    fs,                 \* the local file system: a set of paths
    created,            \* paths the running save_data_in_s3 call created
    saves               \* save_data_in_s3 calls the caller still makes

vars == <<s3_output_prefix, athena_failures, pc, op, delete_results,
          execution_id, state, elapsed_time, response, filename_s3,
          outcome, ret, localfile, bucket, late, abandoned, nextId, calls,
          tick, polls, queuedPolls, submits, callFails, startFailures,
          sinceSuccess, prevStreak, svcBody, removed, readKey, savePc,
          saveArgs, saveFile, saveError, fs, created, saves>>

----------------------------------------------------------------------------
(* Program constants *)

ATHENA_TIMEOUT == 300

MAX_ATHENA_ERRORS == 5

(* Bounds of the model *)

\* calls a caller makes through one session in Spec
MaxCalls == 2

\* calls a caller makes through the session in SpecPoll
PollCalls == 1

\* calls a caller makes through each of the two sessions in Spec2
PairCalls == 1

\* in Spec and Spec2 the service reports a pending status only while the
\* attempt's elapsed_time stays below this
PendingCap == 2

\* in Spec2 the service fails an attempt only while the call's earlier
\* failures stay below this
PairFails == 1

\* executions left pending by a timeout that the service carries on with
MaxLate == 1

\* data rows of a result object
MaxRows == 2

\* hex digits of the session's uuid
HexLen == 1

\* calls of save_data_in_s3 in SpecSave
MaxSaves == 2

\* in SpecRun the service reports QUEUED at most this often per attempt
MaxQueued == 2

\* no limit on what the service answers
NoCap == 0 - 1

----------------------------------------------------------------------------
(* Values *)

Sessions == {1, 2}

Pending == {"RUNNING", "QUEUED"}

Statuses == {"RUNNING", "QUEUED", "SUCCEEDED", "FAILED", "CANCELLED"}

None == <<"None">>

NoBody == << <<"NoBody">> >>

NoFile == << <<"NoFile">> >>

NoKey == <<"NoKey">>

NoValue == [kind |-> "None"]

Hex == {"a", "b"}

\* uuid.uuid4().hex: a fixed-length string of hex digits
UuidHex == [1..HexLen -> Hex]

\* a prefix that leaves the uuid out
OutputPrefix_NoUuid(hex) == <<"tmp", "/", "athena", "/">>

\* "tmp/athena/{}".format(uuid.uuid4().hex)
OutputPrefix(hex) == <<"tmp", "/", "athena", "/">> \o hex

\* "s3://{}/{}/".format(self.s3_output, self.s3_output_prefix)
OutputFullPath(prefix) == <<"s3:", "/", "/", "bucket", "/">> \o prefix \o <<"/">>

\* the service's execution ids are unique: the n-th query of session s
ExecutionId(s, n) == <<s, n>>

\* the name of the result object the service writes for an execution
ResultName(id) == <<ToString(id[1]), "-", ToString(id[2])>>

\* response['QueryExecution']['ResultConfiguration']['OutputLocation']
OutputLocation(prefix, id) == OutputFullPath(prefix) \o ResultName(id)

RECURSIVE LastSlash(_, _)
LastSlash(path, i) ==
    IF i = 0 THEN 0
    ELSE IF path[i] = "/" THEN i ELSE LastSlash(path, i - 1)

\* re.findall('.*/(.*)', s3_path)[0]: what follows the last slash
Basename(path) == SubSeq(path, LastSlash(path, Len(path)) + 1, Len(path))

\* "{}/{}".format(self.s3_output_prefix, filename_s3)
FilePath(prefix, filename) == prefix \o <<"/">> \o filename

StartsWith(key, prefix) ==
    /\ Len(key) >= Len(prefix)
    /\ SubSeq(key, 1, Len(prefix)) = prefix

\* s3.Bucket(...).objects.filter(Prefix=prefix).delete()
DeleteByPrefix(objects, prefix) == {o \in objects : ~StartsWith(o.key, prefix)}

Under(objects, prefix) == {o \in objects : StartsWith(o.key, prefix)}

HasKey(objects, key) == \E o \in objects : o.key = key

\* the bytes of the object stored at key
BodyAt(objects, key) == (CHOOSE o \in objects : o.key = key).body

\* the service writes (or overwrites) one object
PutObject(objects, key, body) ==
    {o \in objects : o.key # key} \cup {[key |-> key, body |-> body]}

Header == <<"name">>

Row == <<"x">>

\* result bodies: no bytes at all, or a header line and up to MaxRows data rows
Contents == {<<>>} \cup {<<Header>> \o [i \in 1..n |-> Row] : n \in 0..MaxRows}

RECURSIVE ContentLength(_)
\* content_length: one byte per field, per separator and per line end
ContentLength(body) ==
    IF body = <<>> THEN 0 ELSE 2 * Len(Head(body)) + ContentLength(Tail(body))

\* list(csv.DictReader(io.StringIO(file_content))): the first line names the fields
DictRows(body) ==
    IF body = <<>> THEN <<>>
    ELSE [i \in 1..(Len(body) - 1) |->
            [f \in {Head(body)[j] : j \in 1..Len(Head(body))} |->
                body[i + 1][CHOOSE j \in 1..Len(Head(body)) : Head(body)[j] = f]]]

----------------------------------------------------------------------------
(* query_athena_and_wait, piece by piece *)

\* while elapsed_time <= self.ATHENA_TIMEOUT and state in ['RUNNING', 'QUEUED']
LoopCond(elapsed, st) == elapsed <= ATHENA_TIMEOUT /\ st \in Pending

\* a loop that counts every iteration against the timeout
Elapse_EveryPoll(elapsed, st) == elapsed + 1

\* if state in ['RUNNING']: elapsed_time = elapsed_time + 1
Elapse(elapsed, st) == IF st = "RUNNING" THEN elapsed + 1 ELSE elapsed

\* self.athena_failures = self.athena_failures + 1
FailuresAfterFailure(n) == n + 1

\* an abort that clears the counter on its way out
FailuresAfterAbort_Reset(n) == 0

\* the assertion raises and nothing restores self.athena_failures
FailuresAfterAbort(n) == n

\* a success branch that leaves the counter alone
FailuresAfterSuccess_Kept(n) == n

\* self.athena_failures = 0
FailuresAfterSuccess(n) == 0

\* a breaker that trips one failure late
MayRetry_OneMore(n) == n <= MAX_ATHENA_ERRORS + 1

\* assert self.athena_failures <= self.MAX_ATHENA_ERRORS
MayRetry(n) == n <= MAX_ATHENA_ERRORS

\* a success branch that forgets the delete
AfterSuccess_NoDelete(objects, prefix, del) == objects

\* the objects left by the success branch
AfterSuccess(objects, prefix, del) ==
    IF del THEN DeleteByPrefix(objects, prefix) ELSE objects

\* an assertion that accepts any non-empty result
SingleRow_AtLeastOne(rows) == Len(rows) >= 1

\* assert len(rows) == 1
SingleRow(rows) == Len(rows) = 1

\* a method that evaluates the assertion before it deletes
AfterRead_AssertFirst(objects, prefix, rows) ==
    IF SingleRow(rows) THEN DeleteByPrefix(objects, prefix) ELSE objects

\* the objects left when query_athena_and_get_result evaluates its assertion:
\* the delete follows the read and comes before the rows are parsed
AfterRead(objects, prefix, rows) == DeleteByPrefix(objects, prefix)

\* a decision taken from the parsed rows
Exist_ByRows(body) == Len(DictRows(body)) # 0

\* if content_object.content_length == 0: exist = False, else: exist = True
Exist(body) == ContentLength(body) # 0

\* Path(Path(__file__).parent, 'tmp', filename)
LocalPath(s) == <<"tmp", "/", "download", ToString(s)>>

----------------------------------------------------------------------------
(* Initial states *)

\* every session draws its own uuid; two draws differ
DistinctHex == {g \in [Sessions -> UuidHex] : g[1] # g[2]}

OneHex == {CHOOSE g \in DistinctHex : TRUE}

InitSave(n, disks) ==
    /\ savePc = "idle"
    /\ saveArgs = [partitions |-> "None", content |-> "dict", compress_file |-> TRUE,
                   s3_key |-> "k1"]
    /\ saveFile = <<"None">>
    /\ saveError = "none"
    /\ fs \in disks
    /\ created = {}
    /\ saves = n

InitSessions(budget, hexes) ==
    /\ s3_output_prefix \in {[s \in Sessions |-> OutputPrefix(h[s])] : h \in hexes}
    /\ athena_failures = [s \in Sessions |-> 0]
    /\ pc = [s \in Sessions |-> "idle"]
    /\ op = [s \in Sessions |-> "none"]
    /\ delete_results = [s \in Sessions |-> TRUE]
    /\ execution_id = [s \in Sessions |-> ExecutionId(s, 0)]
    /\ state = [s \in Sessions |-> "RUNNING"]
    /\ elapsed_time = [s \in Sessions |-> 0]
    /\ response = [s \in Sessions |-> None]
    /\ filename_s3 = [s \in Sessions |-> None]
    /\ outcome = [s \in Sessions |-> "none"]
    /\ ret = [s \in Sessions |-> NoValue]
    /\ localfile = [s \in Sessions |-> NoFile]
    /\ bucket = {}
    /\ late = {}
    /\ abandoned = 0
    /\ nextId = [s \in Sessions |-> 1]
    /\ calls = budget
    /\ tick = [s \in Sessions |-> 0]
    /\ polls = [s \in Sessions |-> 0]
    /\ queuedPolls = [s \in Sessions |-> 0]
    /\ submits = [s \in Sessions |-> 0]
    /\ callFails = [s \in Sessions |-> 0]
    /\ startFailures = [s \in Sessions |-> 0]
    /\ sinceSuccess = [s \in Sessions |-> 0]
    /\ prevStreak = [s \in Sessions |-> 0]
    /\ svcBody = [s \in Sessions |-> NoBody]
    /\ removed = [s \in Sessions |-> 0]
    /\ readKey = [s \in Sessions |-> NoKey]

----------------------------------------------------------------------------
(* Actions of a session *)

\* a public method is called: it calls query_athena_and_wait, which submits
Call(s, o, del) ==
    /\ pc[s] = "idle"
    /\ calls[s] > 0
    /\ calls' = [calls EXCEPT ![s] = @ - 1]
    /\ op' = [op EXCEPT ![s] = o]
    /\ delete_results' = [delete_results EXCEPT ![s] = del]
    /\ execution_id' = [execution_id EXCEPT ![s] = ExecutionId(s, nextId[s])]
    /\ nextId' = [nextId EXCEPT ![s] = @ + 1]
    /\ state' = [state EXCEPT ![s] = "RUNNING"]
    /\ elapsed_time' = [elapsed_time EXCEPT ![s] = 0]
    /\ response' = [response EXCEPT ![s] = None]
    /\ filename_s3' = [filename_s3 EXCEPT ![s] = None]
    /\ outcome' = [outcome EXCEPT ![s] = "none"]
    /\ ret' = [ret EXCEPT ![s] = NoValue]
    /\ pc' = [pc EXCEPT ![s] = "poll"]
    /\ submits' = [submits EXCEPT ![s] = 1]
    /\ callFails' = [callFails EXCEPT ![s] = 0]
    /\ startFailures' = [startFailures EXCEPT ![s] = athena_failures[s]]
    /\ svcBody' = [svcBody EXCEPT ![s] = NoBody]
    /\ removed' = [removed EXCEPT ![s] = 0]
    /\ readKey' = [readKey EXCEPT ![s] = NoKey]
    /\ polls' = [polls EXCEPT ![s] = 0]
    /\ queuedPolls' = [queuedPolls EXCEPT ![s] = 0]
    /\ UNCHANGED <<s3_output_prefix, athena_failures, localfile, bucket,
                   late, abandoned, tick, sinceSuccess, prevStreak, savePc,
                   saveArgs, saveFile, saveError, fs, created, saves>>

\* one iteration of the polling loop; the service answers st (a pending
\* status only below cap, a failing one only below failCap, QUEUED at most
\* queueCap times in an attempt, when these are set). The iterations of an
\* attempt are counted where the service queues it a bounded number of times.
Poll(s, cap, failCap, queueCap) ==
    /\ pc[s] = "poll"
    /\ LoopCond(elapsed_time[s], state[s])
    /\ elapsed_time' = [elapsed_time EXCEPT ![s] = Elapse(@, state[s])]
    /\ tick' = [tick EXCEPT ![s] = 1 - @]
    /\ IF queueCap = NoCap
       THEN UNCHANGED <<polls, queuedPolls>>
       ELSE /\ polls' = [polls EXCEPT ![s] = @ + 1]
            /\ queuedPolls' = [queuedPolls EXCEPT ![s] =
                                 IF state[s] = "QUEUED" THEN @ + 1 ELSE @]
    /\ \E st \in Statuses :
         /\ st \in Pending => (cap = NoCap \/ elapsed_time'[s] < cap)
         /\ st = "QUEUED" => (queueCap = NoCap \/ queuedPolls'[s] < queueCap)
         /\ st \in {"FAILED", "CANCELLED"} =>
              (failCap = NoCap \/ callFails[s] < failCap)
         /\ state' = [state EXCEPT ![s] = st]
         /\ response' = [response EXCEPT ![s] =
                           OutputLocation(s3_output_prefix[s], execution_id[s])]
         /\ IF st = "SUCCEEDED"
            THEN \E body \in Contents :
                   /\ bucket' = PutObject(bucket,
                         FilePath(s3_output_prefix[s], ResultName(execution_id[s])),
                         body)
                   /\ svcBody' = [svcBody EXCEPT ![s] = body]
            ELSE UNCHANGED <<bucket, svcBody>>
    /\ UNCHANGED <<s3_output_prefix, athena_failures, pc, op,
                   delete_results, execution_id, filename_s3, outcome, ret,
                   localfile, late, abandoned, nextId, calls, submits,
                   callFails, startFailures, sinceSuccess, prevStreak,
                   removed, readKey, savePc, saveArgs, saveFile, saveError,
                   fs, created, saves>>

\* the loop is left with state != 'SUCCEEDED': count, assert, sleep, resubmit
AttemptFailed(s) ==
    /\ pc[s] = "poll"
    /\ ~LoopCond(elapsed_time[s], state[s])
    /\ state[s] # "SUCCEEDED"
    /\ athena_failures' = [athena_failures EXCEPT ![s] =
                              IF MayRetry(FailuresAfterFailure(@))
                              THEN FailuresAfterFailure(@)
                              ELSE FailuresAfterAbort(FailuresAfterFailure(@))]
    /\ callFails' = [callFails EXCEPT ![s] = @ + 1]
    /\ sinceSuccess' = [sinceSuccess EXCEPT ![s] = @ + 1]
    /\ IF state[s] \in Pending /\ abandoned < MaxLate
       THEN /\ late' = late \cup
                  {FilePath(s3_output_prefix[s], ResultName(execution_id[s]))}
            /\ abandoned' = abandoned + 1
       ELSE UNCHANGED <<late, abandoned>>
    /\ IF MayRetry(FailuresAfterFailure(athena_failures[s]))
       THEN /\ execution_id' = [execution_id EXCEPT ![s] = ExecutionId(s, nextId[s])]
            /\ nextId' = [nextId EXCEPT ![s] = @ + 1]
            /\ state' = [state EXCEPT ![s] = "RUNNING"]
            /\ elapsed_time' = [elapsed_time EXCEPT ![s] = 0]
            /\ response' = [response EXCEPT ![s] = None]
            /\ submits' = [submits EXCEPT ![s] = @ + 1]
            /\ polls' = [polls EXCEPT ![s] = 0]
            /\ queuedPolls' = [queuedPolls EXCEPT ![s] = 0]
            /\ UNCHANGED <<pc, outcome>>
       ELSE /\ pc' = [pc EXCEPT ![s] = "idle"]
            /\ outcome' = [outcome EXCEPT ![s] = "aborted"]
            /\ UNCHANGED <<execution_id, nextId, state, elapsed_time, response,
                           submits, polls, queuedPolls>>
    /\ UNCHANGED <<s3_output_prefix, op, delete_results, filename_s3, ret,
                   localfile, bucket, calls, tick, startFailures,
                   prevStreak, svcBody, removed, readKey, savePc, saveArgs,
                   saveFile, saveError, fs, created, saves>>

\* the loop is left with state = 'SUCCEEDED'
AttemptSucceeded(s) ==
    /\ pc[s] = "poll"
    /\ ~LoopCond(elapsed_time[s], state[s])
    /\ state[s] = "SUCCEEDED"
    /\ athena_failures' = [athena_failures EXCEPT ![s] = FailuresAfterSuccess(@)]
    /\ prevStreak' = [prevStreak EXCEPT ![s] = sinceSuccess[s]]
    /\ sinceSuccess' = [sinceSuccess EXCEPT ![s] = 0]
    /\ bucket' = AfterSuccess(bucket, s3_output_prefix[s], delete_results[s])
    /\ removed' = [removed EXCEPT ![s] = Cardinality(bucket) - Cardinality(bucket')]
    /\ IF delete_results[s]
       THEN /\ pc' = [pc EXCEPT ![s] = "idle"]
            /\ outcome' = [outcome EXCEPT ![s] = "returned"]
            /\ UNCHANGED <<filename_s3, ret>>
       ELSE /\ filename_s3' = [filename_s3 EXCEPT ![s] = Basename(response[s])]
            /\ IF op[s] = "wait"
               THEN /\ pc' = [pc EXCEPT ![s] = "idle"]
                    /\ outcome' = [outcome EXCEPT ![s] = "returned"]
                    /\ ret' = [ret EXCEPT ![s] =
                                 [kind |-> "name", val |-> Basename(response[s])]]
               ELSE /\ pc' = [pc EXCEPT ![s] = "fetch"]
                    /\ UNCHANGED <<outcome, ret>>
    /\ UNCHANGED <<s3_output_prefix, op, delete_results, execution_id,
                   state, elapsed_time, response, localfile, late,
                   abandoned, nextId, calls, tick, polls, queuedPolls,
                   submits, callFails, startFailures, svcBody, readKey,
                   savePc, saveArgs, saveFile, saveError, fs, created,
                   saves>>

\* query_athena_and_download after the query: download, delete, return the path
Download(s) ==
    /\ pc[s] = "fetch"
    /\ op[s] = "download"
    /\ HasKey(bucket, FilePath(s3_output_prefix[s], filename_s3[s]))
    /\ readKey' = [readKey EXCEPT ![s] = FilePath(s3_output_prefix[s], filename_s3[s])]
    /\ localfile' = [localfile EXCEPT ![s] =
                       BodyAt(bucket, FilePath(s3_output_prefix[s], filename_s3[s]))]
    /\ bucket' = DeleteByPrefix(bucket, s3_output_prefix[s])
    /\ removed' = [removed EXCEPT ![s] = Cardinality(bucket) - Cardinality(bucket')]
    /\ ret' = [ret EXCEPT ![s] = [kind |-> "path", val |-> LocalPath(s)]]
    /\ outcome' = [outcome EXCEPT ![s] = "returned"]
    /\ pc' = [pc EXCEPT ![s] = "idle"]
    /\ UNCHANGED <<s3_output_prefix, athena_failures, op, delete_results,
                   execution_id, state, elapsed_time, response,
                   filename_s3, late, abandoned, nextId, calls, tick,
                   polls, queuedPolls, submits, callFails, startFailures,
                   sinceSuccess, prevStreak, svcBody, savePc, saveArgs,
                   saveFile, saveError, fs, created, saves>>

\* query_athena_and_get_result after the query: read, delete, parse, assert
GetResult(s) ==
    /\ pc[s] = "fetch"
    /\ op[s] = "get_result"
    /\ HasKey(bucket, FilePath(s3_output_prefix[s], filename_s3[s]))
    /\ readKey' = [readKey EXCEPT ![s] = FilePath(s3_output_prefix[s], filename_s3[s])]
    /\ LET rows == DictRows(BodyAt(bucket, FilePath(s3_output_prefix[s], filename_s3[s])))
       IN /\ bucket' = AfterRead(bucket, s3_output_prefix[s], rows)
          /\ IF SingleRow(rows)
             THEN /\ ret' = [ret EXCEPT ![s] = [kind |-> "row", val |-> rows[1]]]
                  /\ outcome' = [outcome EXCEPT ![s] = "returned"]
             ELSE /\ ret' = [ret EXCEPT ![s] = NoValue]
                  /\ outcome' = [outcome EXCEPT ![s] = "asserted"]
    /\ removed' = [removed EXCEPT ![s] = Cardinality(bucket) - Cardinality(bucket')]
    /\ pc' = [pc EXCEPT ![s] = "idle"]
    /\ UNCHANGED <<s3_output_prefix, athena_failures, op, delete_results,
                   execution_id, state, elapsed_time, response,
                   filename_s3, localfile, late, abandoned, nextId, calls,
                   tick, polls, queuedPolls, submits, callFails,
                   startFailures, sinceSuccess, prevStreak, svcBody,
                   savePc, saveArgs, saveFile, saveError, fs, created,
                   saves>>

\* table_exists after the query: probe the length, delete, return the decision
TableExists(s) ==
    /\ pc[s] = "fetch"
    /\ op[s] = "table_exists"
    /\ HasKey(bucket, FilePath(s3_output_prefix[s], filename_s3[s]))
    /\ readKey' = [readKey EXCEPT ![s] = FilePath(s3_output_prefix[s], filename_s3[s])]
    /\ ret' = [ret EXCEPT ![s] =
                 [kind |-> "bool",
                  val |-> Exist(BodyAt(bucket,
                                       FilePath(s3_output_prefix[s], filename_s3[s])))]]
    /\ bucket' = DeleteByPrefix(bucket, s3_output_prefix[s])
    /\ removed' = [removed EXCEPT ![s] = Cardinality(bucket) - Cardinality(bucket')]
    /\ outcome' = [outcome EXCEPT ![s] = "returned"]
    /\ pc' = [pc EXCEPT ![s] = "idle"]
    /\ UNCHANGED <<s3_output_prefix, athena_failures, op, delete_results,
                   execution_id, state, elapsed_time, response,
                   filename_s3, localfile, late, abandoned, nextId, calls,
                   tick, polls, queuedPolls, submits, callFails,
                   startFailures, sinceSuccess, prevStreak, svcBody,
                   savePc, saveArgs, saveFile, saveError, fs, created,
                   saves>>

\* the store request of the method (download_file, get, the length probe)
\* raises: the error propagates and the lines after it do not run
StoreError(s) ==
    /\ pc[s] = "fetch"
    /\ outcome' = [outcome EXCEPT ![s] = "raised"]
    /\ pc' = [pc EXCEPT ![s] = "idle"]
    /\ UNCHANGED <<s3_output_prefix, athena_failures, op, delete_results,
                   execution_id, state, elapsed_time, response,
                   filename_s3, ret, localfile, bucket, late, abandoned,
                   nextId, calls, tick, polls, queuedPolls, submits,
                   callFails, startFailures, sinceSuccess, prevStreak,
                   svcBody, removed, readKey, savePc, saveArgs, saveFile,
                   saveError, fs, created, saves>>

\* an abandoned execution completes after all and the service writes its result
LateComplete ==
    /\ \E key \in late : \E body \in Contents :
         /\ bucket' = PutObject(bucket, key, body)
         /\ late' = late \ {key}
    /\ UNCHANGED <<s3_output_prefix, athena_failures, pc, op,
                   delete_results, execution_id, state, elapsed_time,
                   response, filename_s3, outcome, ret, localfile,
                   abandoned, nextId, calls, tick, polls, queuedPolls,
                   submits, callFails, startFailures, sinceSuccess,
                   prevStreak, svcBody, removed, readKey, savePc, saveArgs,
                   saveFile, saveError, fs, created, saves>>

\* an abandoned execution fails remotely and writes nothing
LateFail ==
    /\ \E key \in late : late' = late \ {key}
    /\ UNCHANGED <<s3_output_prefix, athena_failures, pc, op,
                   delete_results, execution_id, state, elapsed_time,
                   response, filename_s3, outcome, ret, localfile, bucket,
                   abandoned, nextId, calls, tick, polls, queuedPolls,
                   submits, callFails, startFailures, sinceSuccess,
                   prevStreak, svcBody, removed, readKey, savePc, saveArgs,
                   saveFile, saveError, fs, created, saves>>

----------------------------------------------------------------------------
(* save_data_in_s3 and compress *)

PartitionKinds == {"None", "OrderedDict", "dict"}

\* a non-empty list of records, an empty list, a dict, a dict json.dumps
\* rejects, anything else
ContentShapes == {"list", "emptylist", "dict", "baddict", "other"}

S3Keys == {"k1", "k2"}

SaveArguments ==
    [partitions : PartitionKinds, content : ContentShapes,
     compress_file : BOOLEAN, s3_key : S3Keys]

\* temp_dir = uuid.uuid4(): a fresh directory name for every call
TempDir(n) == <<"uuid", ToString(n)>>

\* f"./{temp_dir}/{s3_key.strip('.bz2')}"
TempFile(n, key) == TempDir(n) \o <<"/", key>>

\* Path(Path(__file__).parent, 'tmp', "{}.bz2".format(os.path.basename(filename)))
Bz2Path(filename) == <<"tmp", "/">> \o Basename(filename) \o <<".bz2">>

\* shutil.rmtree(dir): the directory and everything below it
RmTree(files, dir) == {f \in files : ~StartsWith(f, dir)}

\* the partitions check, then temp_dir and its mkdir
SaveBegin(args) ==
    /\ savePc \in {"idle", "done"}
    /\ saves > 0
    /\ saves' = saves - 1
    /\ saveArgs' = args
    /\ saveFile' = <<"None">>
    /\ IF args.partitions = "dict"
       THEN /\ saveError' = "TypeError"
            /\ savePc' = "done"
            /\ created' = {}
            /\ UNCHANGED fs
       ELSE /\ saveError' = "none"
            /\ savePc' = "write"
            /\ fs' = fs \cup {TempDir(saves)}
            /\ created' = {TempDir(saves)}
    /\ UNCHANGED <<s3_output_prefix, athena_failures, pc, op,
                   delete_results, execution_id, state, elapsed_time,
                   response, filename_s3, outcome, ret, localfile, bucket,
                   late, abandoned, nextId, calls, tick, polls,
                   queuedPolls, submits, callFails, startFailures,
                   sinceSuccess, prevStreak, svcBody, removed, readKey>>

\* the content is written to filename as CSV or JSON, or its shape is refused
SaveWrite ==
    /\ savePc = "write"
    /\ saveFile' = TempFile(saves + 1, saveArgs.s3_key)
    /\ \/ /\ saveArgs.content \in {"list", "dict"}
          /\ fs' = fs \cup {saveFile'}
          /\ created' = created \cup {saveFile'}
          /\ \/ /\ savePc' = IF saveArgs.compress_file THEN "compress" ELSE "upload"
                /\ UNCHANGED saveError
             \/ /\ savePc' = "finally"
                /\ saveError' = "OSError"
       \/ /\ saveArgs.content = "emptylist"
          /\ fs' = fs \cup {saveFile'}
          /\ created' = created \cup {saveFile'}
          /\ savePc' = "finally"
          /\ saveError' = "IndexError"
       \/ /\ saveArgs.content \in {"baddict", "other"}
          /\ savePc' = "finally"
          /\ saveError' = "TypeError"
          /\ UNCHANGED <<fs, created>>
    /\ UNCHANGED <<s3_output_prefix, athena_failures, pc, op,
                   delete_results, execution_id, state, elapsed_time,
                   response, filename_s3, outcome, ret, localfile, bucket,
                   late, abandoned, nextId, calls, tick, polls,
                   queuedPolls, submits, callFails, startFailures,
                   sinceSuccess, prevStreak, svcBody, removed, readKey,
                   saveArgs, saves>>

\* filename = str(compress(filename)): the archive is written beside the
\* module, under tmp, and the original is removed
SaveCompress ==
    /\ savePc = "compress"
    /\ IF <<"tmp">> \notin fs
       THEN /\ savePc' = "finally"
            /\ saveError' = "FileNotFoundError"
            /\ UNCHANGED <<fs, created, saveFile>>
       ELSE \/ /\ fs' = (fs \cup {Bz2Path(saveFile)}) \ {saveFile}
               /\ created' = created \cup {Bz2Path(saveFile)}
               /\ saveFile' = Bz2Path(saveFile)
               /\ savePc' = "upload"
               /\ UNCHANGED saveError
            \/ /\ fs' = fs \cup {Bz2Path(saveFile)}
               /\ created' = created \cup {Bz2Path(saveFile)}
               /\ savePc' = "finally"
               /\ saveError' = "OSError"
               /\ UNCHANGED saveFile
    /\ UNCHANGED <<s3_output_prefix, athena_failures, pc, op,
                   delete_results, execution_id, state, elapsed_time,
                   response, filename_s3, outcome, ret, localfile, bucket,
                   late, abandoned, nextId, calls, tick, polls,
                   queuedPolls, submits, callFails, startFailures,
                   sinceSuccess, prevStreak, svcBody, removed, readKey,
                   saveArgs, saves>>

\* s3.Bucket(s3_bucket).upload_file(filename, s3_path)
SaveUpload ==
    /\ savePc = "upload"
    /\ savePc' = "finally"
    /\ \/ UNCHANGED saveError
       \/ saveError' = "S3UploadFailedError"
    /\ UNCHANGED <<s3_output_prefix, athena_failures, pc, op,
                   delete_results, execution_id, state, elapsed_time,
                   response, filename_s3, outcome, ret, localfile, bucket,
                   late, abandoned, nextId, calls, tick, polls,
                   queuedPolls, submits, callFails, startFailures,
                   sinceSuccess, prevStreak, svcBody, removed, readKey,
                   saveArgs, saveFile, fs, created, saves>>

\* finally: shutil.rmtree(f"./{temp_dir}"); the function returns or re-raises
SaveFinally ==
    /\ savePc = "finally"
    /\ fs' = RmTree(fs, TempDir(saves + 1))
    /\ savePc' = "done"
    /\ UNCHANGED <<s3_output_prefix, athena_failures, pc, op,
                   delete_results, execution_id, state, elapsed_time,
                   response, filename_s3, outcome, ret, localfile, bucket,
                   late, abandoned, nextId, calls, tick, polls,
                   queuedPolls, submits, callFails, startFailures,
                   sinceSuccess, prevStreak, svcBody, removed, readKey,
                   saveArgs, saveFile, saveError, created, saves>>

----------------------------------------------------------------------------
(* Specifications *)

Budget(n1, n2) == [s \in Sessions |-> IF s = 1 THEN n1 ELSE n2]

\* one session, every public method, a service that answers within PendingCap
Init == InitSessions(Budget(MaxCalls, 0), OneHex) /\ InitSave(0, {{<<"tmp">>}})

Next ==
    \/ \E del \in BOOLEAN : Call(1, "wait", del)
    \/ \E o \in {"download", "get_result", "table_exists"} : Call(1, o, FALSE)
    \/ Poll(1, PendingCap, NoCap, NoCap)
    \/ AttemptFailed(1)
    \/ AttemptSucceeded(1)
    \/ Download(1)
    \/ GetResult(1)
    \/ TableExists(1)
    \/ StoreError(1)

Spec == Init /\ [][Next]_vars

\* one session, query_athena_and_wait alone, a service that may stay pending
\* for ever; the running loop is not starved
InitPoll == InitSessions(Budget(PollCalls, 0), OneHex) /\ InitSave(0, {{<<"tmp">>}})

NextPoll ==
    \/ \E del \in BOOLEAN : Call(1, "wait", del)
    \/ Poll(1, NoCap, NoCap, NoCap)
    \/ AttemptFailed(1)
    \/ AttemptSucceeded(1)
    \/ LateComplete
    \/ LateFail

SpecPoll ==
    /\ InitPoll
    /\ [][NextPoll]_vars
    /\ WF_vars(Poll(1, NoCap, NoCap, NoCap))
    /\ WF_vars(AttemptFailed(1))
    /\ WF_vars(AttemptSucceeded(1))

\* two sessions on one bucket, interleaved
Init2 ==
    InitSessions(Budget(PairCalls, PairCalls), DistinctHex) /\ InitSave(0, {{<<"tmp">>}})

Next2 ==
    \E s \in Sessions :
        \/ \E del \in BOOLEAN : Call(s, "wait", del)
        \/ \E o \in {"download", "get_result", "table_exists"} : Call(s, o, FALSE)
        \/ Poll(s, PendingCap, PairFails, NoCap)
        \/ AttemptFailed(s)
        \/ AttemptSucceeded(s)
        \/ Download(s)
        \/ GetResult(s)
        \/ TableExists(s)
        \/ StoreError(s)

Spec2 == Init2 /\ [][Next2]_vars

\* one session, query_athena_and_wait alone, a service that lets an attempt
\* run as long as the client polls it and queues it at most MaxQueued times
InitRun == InitSessions(Budget(PollCalls, 0), OneHex) /\ InitSave(0, {{<<"tmp">>}})

NextRun ==
    \/ \E del \in BOOLEAN : Call(1, "wait", del)
    \/ Poll(1, NoCap, NoCap, MaxQueued)
    \/ AttemptFailed(1)
    \/ AttemptSucceeded(1)

SpecRun == InitRun /\ [][NextRun]_vars

\* the dataset writer alone
InitSaveOnly ==
    InitSessions(Budget(0, 0), OneHex) /\ InitSave(MaxSaves, {{}, {<<"tmp">>}})

NextSave ==
    \/ \E args \in SaveArguments : SaveBegin(args)
    \/ SaveWrite
    \/ SaveCompress
    \/ SaveUpload
    \/ SaveFinally

SpecSave == InitSaveOnly /\ [][NextSave]_vars

----------------------------------------------------------------------------
(* Claims *)

\* C1: in a call that began with athena_failures = 0, every failing attempt
\* (FAILED, CANCELLED or timed out) up to the 5th is followed by a
\* resubmission, so submissions = failures + 1 while the call runs and when it
\* returns; the 6th failure aborts the call with exactly 6 submissions made,
\* and a 7th submission never happens.
C1_RetryUntilSixthFailure ==
    \A s \in Sessions :
        startFailures[s] = 0 =>
            /\ submits[s] <= MAX_ATHENA_ERRORS + 1
            /\ pc[s] = "poll" =>
                  submits[s] = callFails[s] + 1 /\ callFails[s] <= MAX_ATHENA_ERRORS
            /\ outcome[s] = "returned" =>
                  submits[s] = callFails[s] + 1 /\ callFails[s] <= MAX_ATHENA_ERRORS
            /\ outcome[s] = "aborted" =>
                  /\ callFails[s] = MAX_ATHENA_ERRORS + 1
                  /\ submits[s] = MAX_ATHENA_ERRORS + 1

\* a call that began at 0 was aborted by its 6th failure, one of them a timeout
C1_Witness ==
    /\ outcome[1] = "aborted"
    /\ startFailures[1] = 0
    /\ submits[1] = MAX_ATHENA_ERRORS + 1
    /\ abandoned > 0

\* C2: athena_failures always equals the number of non-SUCCEEDED terminal
\* attempts since the session's last SUCCEEDED attempt (0 right after a
\* success, one more after each failure), over all calls of the session; and
\* an attempt's failure aborts the call exactly when it makes that number
\* exceed MAX_ATHENA_ERRORS, so 4 failures after a success never abort and 6
\* in a row do.
C2_CounterIsStreak ==
    /\ [](\A s \in Sessions : athena_failures[s] = sinceSuccess[s])
    /\ [][\A s \in Sessions :
            sinceSuccess'[s] = sinceSuccess[s] + 1 =>
                /\ athena_failures'[s] = athena_failures[s] + 1
                /\ (outcome'[s] = "aborted") <=> (sinceSuccess'[s] > MAX_ATHENA_ERRORS)]_vars

\* 3 failures, a success, then 4 failures, and the call still runs
C2_Witness ==
    /\ prevStreak[1] = 3
    /\ sinceSuccess[1] = 4
    /\ athena_failures[1] = 4
    /\ pc[1] = "poll"

\* C3: the polling loop of every attempt terminates whatever pending statuses
\* the service reports: whenever a session is in the loop, its loop condition
\* eventually becomes false.
C3_PollingLoopTerminates ==
    \A s \in Sessions :
        (pc[s] = "poll") ~> ~(pc[s] = "poll" /\ LoopCond(elapsed_time[s], state[s]))

\* C4: after a fatal abort of query_athena_and_wait no object remains under
\* the session's output prefix.
C4_AbortLeavesNothing ==
    \A s \in Sessions :
        (pc[s] = "idle" /\ outcome[s] = "aborted")
            => Under(bucket, s3_output_prefix[s]) = {}

\* C5: when query_athena_and_wait with delete_results=True returns, it returns
\* None and at that moment nothing is under the session's output prefix,
\* whatever earlier attempts of the call left there.
C5_DeleteResultsLeavesNothing ==
    [][\A s \in Sessions :
         (pc[s] = "poll" /\ pc'[s] = "idle" /\ outcome'[s] = "returned"
            /\ delete_results[s])
         => (ret'[s] = NoValue /\ Under(bucket', s3_output_prefix[s]) = {})]_vars

\* the call returned after a failed attempt, and its delete removed the result
\* of the successful attempt together with one written by an earlier attempt
C5_Witness ==
    /\ outcome[1] = "returned"
    /\ delete_results[1]
    /\ callFails[1] > 0
    /\ removed[1] >= 2
    /\ ret[1] = NoValue
    /\ Under(bucket, s3_output_prefix[1]) = {}

\* C6: whenever query_athena_and_download is left after its query succeeded,
\* by return or by an error of the download, the output prefix is empty; on
\* return the local file holds the bytes the service wrote.
C6_DownloadAlwaysCleans ==
    \A s \in Sessions :
        (op[s] = "download" /\ pc[s] = "idle" /\ outcome[s] \in {"returned", "raised"})
            => /\ Under(bucket, s3_output_prefix[s]) = {}
               /\ outcome[s] = "returned" => localfile[s] = svcBody[s]

\* C7: query_athena_and_get_result returns a mapping exactly when the result
\* object is a header line and exactly one data row, and the mapping gives
\* every header field its value in that row; with no data row, or with two or
\* more, the assertion fails and nothing is returned.
C7_SingleRowOrAssertion ==
    \A s \in Sessions :
        (op[s] = "get_result" /\ pc[s] = "idle"
            /\ outcome[s] \in {"returned", "asserted"})
            => /\ (outcome[s] = "returned") <=> (Len(svcBody[s]) = 2)
               /\ outcome[s] = "returned" =>
                    /\ ret[s].kind = "row"
                    /\ ret[s].val = [f \in {"name"} |-> "x"]
               /\ outcome[s] = "asserted" => ret[s] = NoValue

\* a one-row result was returned as a mapping
C7_Witness ==
    /\ op[1] = "get_result"
    /\ pc[1] = "idle"
    /\ outcome[1] = "returned"
    /\ Len(svcBody[1]) = 2
    /\ ret[1].kind = "row"

\* C8: table_exists returns False exactly when the result object of the
\* listing query has length zero, and True for every other result object,
\* whatever it holds.
C8_ExistsIffNonEmpty ==
    \A s \in Sessions :
        (op[s] = "table_exists" /\ pc[s] = "idle" /\ outcome[s] = "returned")
            => /\ ret[s].kind = "bool"
               /\ (ret[s].val = FALSE) <=> (svcBody[s] = <<>>)

\* a result that holds a header and no row was answered True
C8_Witness ==
    /\ op[1] = "table_exists"
    /\ pc[1] = "idle"
    /\ outcome[1] = "returned"
    /\ svcBody[1] = <<Header>>
    /\ ret[1].kind = "bool"
    /\ ret[1].val = TRUE

\* C9: with two sessions on one bucket, a step removes an object under a
\* session's prefix only if it is that session's own delete, and what a
\* session reads (download, get_result, table_exists) is the object the
\* service wrote for that session's successful execution.
C9_SessionsDoNotCollide ==
    /\ [](\A s \in Sessions :
            /\ readKey[s] # NoKey =>
                 readKey[s] = FilePath(s3_output_prefix[s], ResultName(execution_id[s]))
            /\ (pc[s] = "idle" /\ outcome[s] = "returned" /\ op[s] = "download")
                 => localfile[s] = svcBody[s]
            /\ (pc[s] = "idle" /\ outcome[s] = "returned" /\ op[s] = "get_result")
                 => ret[s].val = DictRows(svcBody[s])[1]
            /\ (pc[s] = "idle" /\ outcome[s] = "returned" /\ op[s] = "table_exists")
                 => ret[s].val = (ContentLength(svcBody[s]) # 0))
    /\ [][\A s \in Sessions :
            (\E o \in Under(bucket, s3_output_prefix[s]) : o \notin bucket')
                => (pc[s] # "idle" /\ pc'[s] = "idle")]_vars

\* session 1 downloaded and deleted under its prefix while the result object
\* of session 2 lay in the bucket, and that object is still there
C9_Witness ==
    /\ op[1] = "download"
    /\ pc[1] = "idle"
    /\ outcome[1] = "returned"
    /\ removed[1] >= 1
    /\ pc[2] = "fetch"
    /\ HasKey(bucket, FilePath(s3_output_prefix[2], filename_s3[2]))

\* C10: once save_data_in_s3 has returned or raised, no local path the call
\* created remains.
C10_NoLocalTemporaryRemains ==
    savePc = "done" => created \cap fs = {}

\* C11: in the polling loop elapsed_time grows by exactly 1 on each iteration
\* entered with state RUNNING (the assumed RUNNING of a fresh attempt included)
\* and is unchanged on each iteration entered with QUEUED, so it equals the
\* iterations not entered with QUEUED; an attempt left while still pending is
\* left at elapsed_time = ATHENA_TIMEOUT + 1, after exactly ATHENA_TIMEOUT + 1
\* status requests when every answer was RUNNING; and a failing attempt,
\* timed out or FAILED alike, adds 1 to athena_failures and is resubmitted
\* when the counter is within MAX_ATHENA_ERRORS and aborts the call otherwise.
C11_QueuedTimeNotCounted ==
    /\ [][\A s \in Sessions :
            polls'[s] = polls[s] + 1 =>
                /\ state[s] = "RUNNING" => elapsed_time'[s] = elapsed_time[s] + 1
                /\ state[s] = "QUEUED" => elapsed_time'[s] = elapsed_time[s]
                /\ state[s] \in Pending]_vars
    /\ [](\A s \in Sessions :
            pc[s] = "poll" => elapsed_time[s] = polls[s] - queuedPolls[s])
    /\ [](\A s \in Sessions :
            (pc[s] = "poll" /\ ~LoopCond(elapsed_time[s], state[s])
                /\ state[s] \in Pending) =>
                /\ elapsed_time[s] = ATHENA_TIMEOUT + 1
                /\ polls[s] = ATHENA_TIMEOUT + 1 + queuedPolls[s]
                /\ (queuedPolls[s] = 0 /\ state[s] = "RUNNING") =>
                      polls[s] = ATHENA_TIMEOUT + 1)
    /\ [][\A s \in Sessions :
            (pc[s] = "poll" /\ callFails'[s] = callFails[s] + 1
                /\ state[s] \in Pending \cup {"FAILED"}) =>
                /\ athena_failures'[s] = athena_failures[s] + 1
                /\ IF athena_failures'[s] <= MAX_ATHENA_ERRORS
                   THEN /\ pc'[s] = "poll"
                        /\ submits'[s] = submits[s] + 1
                        /\ execution_id'[s] # execution_id[s]
                        /\ elapsed_time'[s] = 0 /\ state'[s] = "RUNNING"
                   ELSE /\ pc'[s] = "idle"
                        /\ outcome'[s] = "aborted"
                        /\ submits'[s] = submits[s]]_vars

\* a call was aborted by its 6th failure, an attempt that answered RUNNING to
\* each of its ATHENA_TIMEOUT + 1 status requests and was left pending
C11_Witness ==
    /\ outcome[1] = "aborted"
    /\ state[1] = "RUNNING"
    /\ queuedPolls[1] = 0
    /\ polls[1] = ATHENA_TIMEOUT + 1
    /\ elapsed_time[1] = ATHENA_TIMEOUT + 1
    /\ athena_failures[1] = MAX_ATHENA_ERRORS + 1
    /\ abandoned > 0

\* C12: once query_athena_and_get_result has been left after reading the
\* result object, by returning the row or by raising the row-count assertion
\* failure, no object remains under the session's output prefix: the
\* prefix-scoped delete comes after the read and before the assertion.
C12_ReadThenDeleteThenAssert ==
    \A s \in Sessions :
        (op[s] = "get_result" /\ outcome[s] \in {"returned", "asserted"}) =>
            /\ readKey[s] = FilePath(s3_output_prefix[s], filename_s3[s])
            /\ Under(bucket, s3_output_prefix[s]) = {}
            /\ removed[s] >= 1

\* the assertion failed on a result of two rows after the delete had removed
\* the result object and one an earlier call had left
C12_Witness ==
    /\ op[1] = "get_result"
    /\ outcome[1] = "asserted"
    /\ Len(svcBody[1]) = 3
    /\ removed[1] = 2
    /\ Under(bucket, s3_output_prefix[1]) = {}

\* C13: a fatal abort leaves athena_failures above MAX_ATHENA_ERRORS (at
\* MAX_ATHENA_ERRORS + 1 when the counter was within the maximum before); the
\* counter comes back within the maximum only by a SUCCEEDED attempt, which
\* sets it to 0; a call that begins with the counter above the maximum makes
\* one submission, and its first failing attempt aborts it with no
\* resubmission and the counter one higher than before.
C13_AbortKeepsCounter ==
    /\ [](\A s \in Sessions :
            outcome[s] = "aborted" =>
                /\ athena_failures[s] > MAX_ATHENA_ERRORS
                /\ athena_failures[s] = startFailures[s] + callFails[s]
                /\ startFailures[s] <= MAX_ATHENA_ERRORS =>
                      athena_failures[s] = MAX_ATHENA_ERRORS + 1)
    /\ [](\A s \in Sessions :
            startFailures[s] > MAX_ATHENA_ERRORS =>
                /\ submits[s] = 1
                /\ callFails[s] <= 1
                /\ callFails[s] = 1 =>
                      /\ outcome[s] = "aborted"
                      /\ athena_failures[s] = startFailures[s] + 1)
    /\ [][\A s \in Sessions :
            (athena_failures[s] > MAX_ATHENA_ERRORS
                /\ athena_failures'[s] <= MAX_ATHENA_ERRORS) =>
                /\ state[s] = "SUCCEEDED"
                /\ athena_failures'[s] = 0]_vars
    /\ [][\A s \in Sessions :
            (athena_failures[s] > MAX_ATHENA_ERRORS
                /\ callFails'[s] = callFails[s] + 1) =>
                /\ outcome'[s] = "aborted"
                /\ athena_failures'[s] = athena_failures[s] + 1
                /\ submits'[s] = submits[s]
                /\ execution_id'[s] = execution_id[s]]_vars

\* the call after a fatal abort was aborted by its first failing attempt
C13_Witness ==
    /\ outcome[1] = "aborted"
    /\ startFailures[1] = MAX_ATHENA_ERRORS + 1
    /\ athena_failures[1] = MAX_ATHENA_ERRORS + 2
    /\ submits[1] = 1
    /\ callFails[1] = 1

====
